---------------------------- MODULE Spec2Model ----------------------------
(***************************************************************************)
(* Point-lookup service of la-geography: the process-wide layer cache,     *)
(* load_layers, validate_coordinates, query_point and lambda_handler of    *)
(* lambda/lookup/handler.py with the configuration of lambda/lookup/       *)
(* config.py.                                                              *)
(*                                                                         *)
(* Coordinates are Python floats; the model carries them in tenths of a    *)
(* degree (34.0 is 340) plus the one non-finite value the parser accepts   *)
(* from the inputs used here, NaN.  Python values (None, str, int, float,  *)
(* a non-empty list) are tagged records.                                   *)
(***************************************************************************)
EXTENDS Integers, Sequences, FiniteSets, TLC

\* ------------------------------------------------------------------ bounds
\* Number of entries of config.LAYERS (a prefix of the 11 configured) loaded.
NumLayers == 2
\* load_layers may be called directly; cap on fetches counted per layer.
MaxFetches == 3
\* Invocations of lambda_handler that overlap in time in one process.
NumInvocations == 2
\* Cells of equal area the projected plane of the apportionment is cut into.
NumCells == 4

\* F applied to the value of e, e evaluated once (call by value).
Bind(e, F(_)) == CHOOSE r \in {F(x) : x \in {e}} : TRUE

\* --------------------------------------------------------- Python values
PyNone == [t |-> "None"]
PyStr(s) == [t |-> "str", s |-> s]
PyInt(n) == [t |-> "int", n |-> n]
PyFloat(n) == [t |-> "float", k |-> "fin", n |-> n]
PyNaN == [t |-> "float", k |-> "nan", n |-> 0]
\* The JSON array [1]: truthy, and no argument float() accepts.
PyList == [t |-> "list"]

\* Python truthiness (`not x`): None, "", 0 and 0.0 are false.
Truthy(v) ==
    CASE v.t = "None" -> FALSE
      [] v.t = "str" -> v.s # ""
      [] v.t = "int" -> v.n # 0
      [] v.t = "float" -> ~(v.k = "fin" /\ v.n = 0)
      [] OTHER -> TRUE

\* Float comparison a <= b: false whenever an operand is NaN.
FloatLe(a, b) == a.k = "fin" /\ b.k = "fin" /\ a.n <= b.n

Digit(d) ==
    CASE d = 0 -> "0" [] d = 1 -> "1" [] d = 2 -> "2" [] d = 3 -> "3"
      [] d = 4 -> "4" [] d = 5 -> "5" [] d = 6 -> "6" [] d = 7 -> "7"
      [] d = 8 -> "8" [] OTHER -> "9"

DigitVal(c) ==
    CASE c = "0" -> 0 [] c = "1" -> 1 [] c = "2" -> 2 [] c = "3" -> 3
      [] c = "4" -> 4 [] c = "5" -> 5 [] c = "6" -> 6 [] c = "7" -> 7
      [] c = "8" -> 8 [] c = "9" -> 9 [] OTHER -> -1

RECURSIVE NatToStr(_)
NatToStr(n) == IF n < 10 THEN Digit(n) ELSE NatToStr(n \div 10) \o Digit(n % 10)

\* repr of a float held in tenths: 910 is "91.0", -1182 is "-118.2".
FloatToStr(f) ==
    IF f.k = "nan" THEN "nan"
    ELSE LET a == IF f.n < 0 THEN -f.n ELSE f.n
         IN (IF f.n < 0 THEN "-" ELSE "") \o NatToStr(a \div 10) \o "." \o Digit(a % 10)

\* str(value) as Python's str() gives it for the value kinds of the model.
ToStr(v) ==
    CASE v.t = "str" -> v.s
      [] v.t = "int" -> IF v.n < 0 THEN "-" \o NatToStr(-v.n) ELSE NatToStr(v.n)
      [] v.t = "float" -> FloatToStr(v)
      [] v.t = "list" -> "[1]"
      [] OTHER -> "None"

\* Whether sub occurs in s (Python's `sub in s`).
RECURSIVE ContainsFrom(_, _, _)
ContainsFrom(s, sub, i) ==
    IF i + Len(sub) - 1 > Len(s) THEN FALSE
    ELSE IF SubSeq(s, i, i + Len(sub) - 1) = sub THEN TRUE
    ELSE ContainsFrom(s, sub, i + 1)

StrContains(s, sub) == ContainsFrom(s, sub, 1)

\* Digits of s from position i on: [n: their value, next: first position that
\* is no digit, count: how many were read].
RECURSIVE ReadDigits(_, _, _, _)
ReadDigits(s, i, acc, cnt) ==
    IF i <= Len(s) /\ DigitVal(SubSeq(s, i, i)) >= 0
    THEN Bind(acc * 10 + DigitVal(SubSeq(s, i, i)),
              LAMBDA a : ReadDigits(s, i + 1, a, cnt + 1))
    ELSE [n |-> acc, next |-> i, count |-> cnt]

\* The value float(str) gives a decimal literal whose integer part was read
\* as ip and whose fraction, if any, as fp.
DecimalValue(s, neg, ip, hasDot, fp) ==
    LET tenth == IF hasDot /\ fp.count >= 1
                 THEN DigitVal(SubSeq(s, ip.next + 1, ip.next + 1)) ELSE 0
        mag == ip.n * 10 + tenth
    IN IF ip.count + fp.count >= 1 /\ fp.next = Len(s) + 1
       THEN [ok |-> TRUE, val |-> PyFloat(IF neg THEN -mag ELSE mag)]
       ELSE [ok |-> FALSE, val |-> PyNaN]

ParseDecimal(s, neg, ip) ==
    LET hasDot == ip.next <= Len(s) /\ SubSeq(s, ip.next, ip.next) = "."
    IN Bind(IF hasDot THEN ReadDigits(s, ip.next + 1, 0, 0)
            ELSE [n |-> 0, next |-> ip.next, count |-> 0],
            LAMBDA fp : DecimalValue(s, neg, ip, hasDot, fp))

\* float(str): [ok, val]; ok = FALSE is ValueError.  Decimal literals
\* [-]digits[.digits] and "nan"; the value is kept to one fractional digit.
ParseFloat(s) ==
    IF s = "nan" THEN [ok |-> TRUE, val |-> PyNaN]
    ELSE LET neg == Len(s) >= 1 /\ SubSeq(s, 1, 1) = "-"
         IN Bind(ReadDigits(s, IF neg THEN 2 ELSE 1, 0, 0),
                 LAMBDA ip : ParseDecimal(s, neg, ip))

\* float(x): exc is "" (no exception), "ValueError" or "TypeError".
ToFloat(v) ==
    CASE v.t = "str" ->
           Bind(ParseFloat(v.s),
                LAMBDA p : [exc |-> IF p.ok THEN "" ELSE "ValueError", val |-> p.val])
      [] v.t = "int" -> [exc |-> "", val |-> PyFloat(v.n * 10)]
      [] v.t = "float" -> [exc |-> "", val |-> v]
      [] OTHER -> [exc |-> "TypeError", val |-> PyNaN]

\* dict.get(key): None when the key is absent.
DictGet(d, key) == IF key \in DOMAIN d THEN d[key] ELSE PyNone

EmptyDict == [x \in {} |-> PyNone]

\* d[key] = value
DictSet(d, key, value) ==
    [x \in (DOMAIN d) \cup {key} |-> IF x = key THEN value ELSE d[x]]

\* ----------------------------------------------------------- configuration
\* config.LAYERS, the fields the handler reads.
CONFIG_LAYERS ==
    << [name |-> "la_neighborhoods_comprehensive", geojson_file |-> "la_neighborhoods_comprehensive.geojson",
        response_key |-> "neighborhood", name_field |-> "name", id_field |-> "slug"],
       [name |-> "la_county_cities", geojson_file |-> "la_county_cities.geojson",
        response_key |-> "city", name_field |-> "city_name", id_field |-> "city_name"],
       [name |-> "lapd_divisions", geojson_file |-> "lapd_divisions.geojson",
        response_key |-> "lapd_division", name_field |-> "aprec", id_field |-> "prec"],
       [name |-> "lapd_bureaus", geojson_file |-> "lapd_bureaus.geojson",
        response_key |-> "lapd_bureau", name_field |-> "name", id_field |-> "bureau"],
       [name |-> "lafd_station_boundaries", geojson_file |-> "lafd_station_boundaries.geojson",
        response_key |-> "lafd_station", name_field |-> "name", id_field |-> "precinctid"],
       [name |-> "lacofd_station_boundaries", geojson_file |-> "lacofd_station_boundaries.geojson",
        response_key |-> "lacofd_station", name_field |-> "stanum", id_field |-> "stanum"],
       [name |-> "la_city_council_districts", geojson_file |-> "la_city_council_districts.geojson",
        response_key |-> "council_district", name_field |-> "district_name", id_field |-> "district"],
       [name |-> "la_city_neighborhood_councils", geojson_file |-> "la_city_neighborhood_councils.geojson",
        response_key |-> "neighborhood_council", name_field |-> "name", id_field |-> "nc_id"],
       [name |-> "la_county_school_districts", geojson_file |-> "la_county_school_districts.geojson",
        response_key |-> "school_district", name_field |-> "label", id_field |-> "abbr"],
       [name |-> "la_county_election_precincts", geojson_file |-> "la_county_election_precincts.geojson",
        response_key |-> "election_precinct", name_field |-> "precinct", id_field |-> "precinct"],
       [name |-> "la_county_airport_noise_contours", geojson_file |-> "la_county_airport_noise_contours.geojson",
        response_key |-> "airport_noise", name_field |-> "airport_name", id_field |-> "objectid"] >>

\* The layers of the model: the first NumLayers entries of config.LAYERS.
LAYERS == SubSeq(CONFIG_LAYERS, 1, NumLayers)

LayerNames == {LAYERS[i].name : i \in 1..Len(LAYERS)}
ResponseKeys == {LAYERS[i].response_key : i \in 1..Len(LAYERS)}

\* config.LA_COUNTY_BBOX in tenths of a degree.
LA_COUNTY_BBOX == [min_lon |-> -1190, max_lon |-> -1176, min_lat |-> 337, max_lat |-> 348]

\* --------------------------------------------------------------- geometry
\* A GeoJSON geometry: an axis-parallel rectangle polygon, or null.
Rect(minx, maxx, miny, maxy) ==
    [type |-> "Polygon", minx |-> minx, maxx |-> maxx, miny |-> miny, maxy |-> maxy]

\* shapely Point(x, y) of two finite floats
Point(x, y) == [x |-> x.n, y |-> y.n]

\* shapely.geometry.shape(geojson geometry): raises on a null geometry.
Shape(g) == [exc |-> IF g.type = "null" THEN "AttributeError" ELSE "", geom |-> g]

\* shapely polygon.contains(point): the point lies in the polygon's interior
\* (a point on the boundary is not contained).
GeomContains(g, p) ==
    /\ g.minx < p.x /\ p.x < g.maxx
    /\ g.miny < p.y /\ p.y < g.maxy

\* -------------------------------------------------- the external GeoJSON files
BoxA == Rect(-1185, -1180, 338, 342)
BoxB == Rect(-1183, -1175, 339, 345)

GeoFeature(g, props) == [geometry |-> g, properties |-> props]

Props(cfg, nameValue, idValue) ==
    DictSet(DictSet(EmptyDict, "objectid_1", idValue), cfg.name_field, nameValue)

\* What load_geojson_from_url may deliver for a layer: an exception of
\* urlopen (a timeout among them), or a parsed feature collection.
FetchOutcomes(cfg) ==
    { [exc |-> "timed out", features |-> <<>>],
      \* two overlapping polygons, a string name and a numeric name
      [exc |-> "", features |->
          << GeoFeature(BoxA, Props(cfg, PyStr("Downtown"), PyInt(1))),
             GeoFeature(BoxB, Props(cfg, PyInt(7), PyInt(2))) >>],
      \* the same polygons in the other order, the first with a null name
      [exc |-> "", features |->
          << GeoFeature(BoxB, Props(cfg, PyNone, PyInt(1))),
             GeoFeature(BoxA, Props(cfg, PyStr("Venice"), PyInt(2))) >>],
      \* a feature whose properties are null, one without the name field
      [exc |-> "", features |->
          << GeoFeature(BoxA, PyNone),
             GeoFeature(BoxB, DictSet(EmptyDict, "objectid_1", PyInt(2))) >>],
      \* a feature without geometry
      [exc |-> "", features |->
          << GeoFeature(BoxA, Props(cfg, PyStr("Downtown"), PyInt(1))),
             GeoFeature([type |-> "null", minx |-> 0, maxx |-> 0, miny |-> 0, maxy |-> 0],
                        Props(cfg, PyStr("Nowhere"), PyInt(2))) >>] }

\* ------------------------------------------------------------ layer cache
\* _layer_cache is a dict: a sequence of entries in insertion order, one per
\* key.  features is None exactly when loaded is FALSE.
InCache(cache, name) == \E i \in 1..Len(cache) : cache[i].name = name

CacheGet(cache, name) == cache[CHOOSE i \in 1..Len(cache) : cache[i].name = name]

\* _layer_cache[name] = entry: in place for an existing key, appended otherwise.
CacheSet(cache, entry) ==
    IF InCache(cache, entry.name)
    THEN [i \in 1..Len(cache) |-> IF cache[i].name = entry.name THEN entry ELSE cache[i]]
    ELSE Append(cache, entry)

LoadedEntry(cfg, features) ==
    [name |-> cfg.name, loaded |-> TRUE, features |-> features, config |-> cfg, error |-> ""]

\* A failed load recorded as a successful load of no features.
FailedAsLoaded(cfg, e) == LoadedEntry(cfg, <<>>)

FailedEntry(cfg, e) ==
    [name |-> cfg.name, loaded |-> FALSE, features |-> <<>>, config |-> cfg, error |-> e]

\* The skip left out: every call fetches every layer again.
SkipNever(cache, name) == FALSE

\* Only a layer that loaded well is skipped: a failed one is tried again.
SkipIfSucceeded(cache, name) == \E i \in 1..Len(cache) : cache[i].name = name /\ cache[i].loaded

\* "Skip if already loaded"
SkipIfLoaded(cache, name) == InCache(cache, name)

\* The conversion loop of load_layers: [exc, features]; the first feature
\* whose geometry shape() rejects raises out of the loop.
RECURSIVE ConvertFeatures(_, _, _)
ConvertFeatures(raw, i, acc) ==
    IF i > Len(raw) THEN [exc |-> "", features |-> acc]
    ELSE LET sh == Shape(raw[i].geometry)
         IN IF sh.exc # "" THEN [exc |-> sh.exc, features |-> <<>>]
            ELSE Bind(Append(acc, [geometry |-> sh.geom, properties |-> raw[i].properties]),
                      LAMBDA acc2 : ConvertFeatures(raw, i + 1, acc2))

\* The body of the try of load_layers for one layer, and its except.
LoadOneLayer(cfg, outcome) ==
    IF outcome.exc # "" THEN FailedEntry(cfg, outcome.exc)
    ELSE Bind(ConvertFeatures(outcome.features, 1, <<>>),
              LAMBDA conv : IF conv.exc # "" THEN FailedEntry(cfg, conv.exc)
                            ELSE LoadedEntry(cfg, conv.features))

\* load_layers without the try/except around a layer: the first failure ends
\* the loop and records nothing.
RECURSIVE LoadLayersAbortOnFailure(_, _, _)
LoadLayersAbortOnFailure(st, i, o) ==
    IF i > Len(LAYERS) THEN st
    ELSE LET cfg == LAYERS[i]
         IN IF SkipIfLoaded(st.cache, cfg.name) THEN LoadLayersAbortOnFailure(st, i + 1, o)
            ELSE Bind(LoadOneLayer(cfg, o[i]),
                      LAMBDA e : IF ~e.loaded THEN st
                                 ELSE LoadLayersAbortOnFailure(
                                        [cache |-> CacheSet(st.cache, e),
                                         fetches |-> [st.fetches EXCEPT ![cfg.name] = @ + 1]],
                                        i + 1, o))

\* load_layers from layer i on; o[i] is what the fetch of layer i delivers if
\* it is made.  st = [cache, fetches].
RECURSIVE LoadLayersFrom(_, _, _)
LoadLayersFrom(st, i, o) ==
    IF i > Len(LAYERS) THEN st
    ELSE LET cfg == LAYERS[i]
         IN IF SkipIfLoaded(st.cache, cfg.name) THEN LoadLayersFrom(st, i + 1, o)
            ELSE Bind([cache |-> CacheSet(st.cache, LoadOneLayer(cfg, o[i])),
                       fetches |-> [st.fetches EXCEPT ![cfg.name] = @ + 1]],
                      LAMBDA st2 : LoadLayersFrom(st2, i + 1, o))

load_layers(cache, fetches, o) == LoadLayersFrom([cache |-> cache, fetches |-> fetches], 1, o)

\* The layers load_layers would fetch from this cache.
ToFetch(cache) == {i \in 1..Len(LAYERS) : ~SkipIfLoaded(cache, LAYERS[i].name)}

\* ------------------------------------------------------ validate_coordinates
LatitudeMessage(lat) ==
    "Invalid latitude: " \o FloatToStr(lat) \o ". Must be between -90 and 90."

LongitudeMessage(lon) ==
    "Invalid longitude: " \o FloatToStr(lon) \o ". Must be between -180 and 180."

\* The upper bound taken exclusive.
LatInRangeExclusive(lat) == FloatLe(PyFloat(-900), lat) /\ FloatLe(lat, PyFloat(899))

\* -90 <= lat <= 90
LatInRange(lat) == FloatLe(PyFloat(-900), lat) /\ FloatLe(lat, PyFloat(900))

\* -180 <= lon <= 180
LonInRange(lon) == FloatLe(PyFloat(-1800), lon) /\ FloatLe(lon, PyFloat(1800))

InCountyBBox(lat, lon) ==
    /\ FloatLe(PyFloat(LA_COUNTY_BBOX.min_lat), lat) /\ FloatLe(lat, PyFloat(LA_COUNTY_BBOX.max_lat))
    /\ FloatLe(PyFloat(LA_COUNTY_BBOX.min_lon), lon) /\ FloatLe(lon, PyFloat(LA_COUNTY_BBOX.max_lon))

\* [ret: the error message or None, warned: the "outside LA County bounds"
\* warning was logged]
validate_coordinates(lat, lon) ==
    IF ~LatInRange(lat) THEN [ret |-> PyStr(LatitudeMessage(lat)), warned |-> FALSE]
    ELSE IF ~LonInRange(lon) THEN [ret |-> PyStr(LongitudeMessage(lon)), warned |-> FALSE]
    ELSE [ret |-> PyNone, warned |-> ~InCountyBBox(lat, lon)]

\* ------------------------------------------------------------- query_point
\* The filter left out of the comprehension.
MatchesAll(features, point) == features

\* [f for f in features if f['geometry'].contains(point)]
Matches(features, point) == SelectSeq(features, LAMBDA f : GeomContains(f.geometry, point))

\* matches[-1]
LastMatch(matches) == matches[Len(matches)]

\* matches[0]
FirstMatch(matches) == matches[1]

\* The name value returned as it is, str() left out.
NameResultRaw(name_value) == name_value

\* str(name_value), or None for a None name value
NameResult(name_value) ==
    IF name_value # PyNone THEN PyStr(ToStr(name_value)) ELSE PyNone

\* The `if matches:` branches of query_point for a layer's matches.
MatchResult(config, matches) ==
    IF matches # <<>>
    THEN LET feature == FirstMatch(matches)
         IN IF feature.properties = PyNone
            \* None.get(...) raises AttributeError
            THEN [value |-> PyNone, warned |-> FALSE, raised |-> TRUE]
            ELSE [value |-> NameResult(DictGet(feature.properties, config.name_field)),
                  warned |-> Len(matches) > 1, raised |-> FALSE]
    ELSE [value |-> PyNone, warned |-> FALSE, raised |-> FALSE]

\* One iteration of the loop of query_point for a cache entry:
\* [value: what results[response_key] is set to, warned: the "Multiple
\* matches" warning was logged, raised: the except branch ran].
QueryLayer(entry, point) ==
    IF ~entry.loaded THEN [value |-> PyNone, warned |-> FALSE, raised |-> FALSE]
    ELSE Bind(Matches(entry.features, point), LAMBDA matches : MatchResult(entry.config, matches))

\* A layer that failed to load is skipped without an entry in results.
AccumulateLoadedOnly(acc, entry, q0) ==
    IF ~entry.loaded THEN acc
    ELSE Bind(q0, LAMBDA q :
           [results |-> DictSet(acc.results, entry.config.response_key, q.value),
            warned |-> IF q.warned THEN acc.warned \cup {entry.name} ELSE acc.warned,
            raised |-> IF q.raised THEN acc.raised \cup {entry.name} ELSE acc.raised])

\* results, warnings and errors after one more iteration with outcome q.
Accumulate(acc, entry, q0) ==
    Bind(q0, LAMBDA q :
    [results |-> DictSet(acc.results, entry.config.response_key, q.value),
     warned |-> IF q.warned THEN acc.warned \cup {entry.name} ELSE acc.warned,
     raised |-> IF q.raised THEN acc.raised \cup {entry.name} ELSE acc.raised])

\* The loop left at the first layer that failed to load or whose scan raised
\* (break for continue, no try around the scan).
RECURSIVE QueryFromBreak(_, _, _, _)
QueryFromBreak(cache, point, i, acc) ==
    IF i > Len(cache) THEN acc
    ELSE Bind(QueryLayer(cache[i], point),
              LAMBDA q : IF ~cache[i].loaded \/ q.raised
                         THEN Accumulate(acc, cache[i], q)
                         ELSE QueryFromBreak(cache, point, i + 1, Accumulate(acc, cache[i], q)))

\* The loop over _layer_cache.items() from entry i on.
RECURSIVE QueryFrom(_, _, _, _)
QueryFrom(cache, point, i, acc) ==
    IF i > Len(cache) THEN acc
    ELSE Bind(Accumulate(acc, cache[i], QueryLayer(cache[i], point)),
              LAMBDA acc2 : QueryFrom(cache, point, i + 1, acc2))

query_point(cache, lat, lon) ==
    QueryFrom(cache, Point(lon, lat), 1, [results |-> EmptyDict, warned |-> {}, raised |-> {}])

\* ---------------------------------------------------------- lambda_handler
Headers ==
    DictSet(DictSet(EmptyDict, "Content-Type", "application/json"),
            "Access-Control-Allow-Origin", "*")

MissingMessage == "Missing required parameters. Please provide both 'lat' and 'lon'."

NumericMessage(lat_str, lon_str) ==
    "Invalid coordinate values. lat='" \o ToStr(lat_str) \o "', lon='" \o ToStr(lon_str)
        \o "' must be numeric."

InternalMessage == "Internal server error. Please try again later."

\* An error response that leaves the CORS header out.
ErrorResponseNoCors(code, message) ==
    [statusCode |-> code, headers |-> DictSet(EmptyDict, "Content-Type", "application/json"),
     body |-> [status |-> "error", message |-> message]]

\* The body is the object json.dumps serialises.
ErrorResponse(code, message) ==
    [statusCode |-> code, headers |-> Headers,
     body |-> [status |-> "error", message |-> message]]

SuccessResponse(lat, lon, results) ==
    [statusCode |-> 200, headers |-> Headers,
     body |-> [status |-> "success", query |-> [lat |-> lat, lon |-> lon], results |-> results]]

\* The exception leaves lambda_handler: no response object is returned.
Propagate(exc) == [statusCode |-> 0, headers |-> EmptyDict, body |-> [status |-> "raised"]]

\* `except Exception as e` around the body of lambda_handler.
OuterExcept(exc) == ErrorResponse(500, InternalMessage)

NoValidation == [called |-> FALSE, lat |-> PyNaN, lon |-> PyNaN, ret |-> PyNone, warned |-> FALSE]
NoQuery == [called |-> FALSE, warned |-> {}, raised |-> {}]

\* event.get("queryStringParameters") or {}
QueryParams(event) ==
    LET q == DictGet(event, "queryStringParameters")
    IN IF q = PyNone \/ DOMAIN q = {} THEN EmptyDict ELSE q

\* A handler that never takes the cold-start branch.
ColdStartNever(cache) == FALSE

\* `if not _layer_cache`
ColdStart(cache) == Len(cache) = 0

\* not lat_str or not lon_str
ParamsMissing(lat_str, lon_str) == ~Truthy(lat_str) \/ ~Truthy(lon_str)

\* The two float() calls of the handler, lat first: exc is that of the first
\* call that raises.
ParseCoordinates(lat_str, lon_str) ==
    Bind(<<ToFloat(lat_str), ToFloat(lon_str)>>,
         LAMBDA f : IF f[1].exc # "" THEN [exc |-> f[1].exc, lat |-> f[1].val, lon |-> f[2].val]
                    ELSE [exc |-> f[2].exc, lat |-> f[1].val, lon |-> f[2].val])

\* The handler from the query on: validation has passed.
RunQuery(cache, val) ==
    Bind(query_point(cache, val.lat, val.lon),
         LAMBDA q : [response |-> SuccessResponse(val.lat, val.lon, q.results),
                     validation |-> val,
                     query |-> [called |-> TRUE, warned |-> q.warned, raised |-> q.raised]])

\* The handler from validate_coordinates on; val is what it returned.
Validated(cache, val) ==
    IF Truthy(val.ret)
    THEN [response |-> ErrorResponse(400, val.ret.s), validation |-> val, query |-> NoQuery]
    ELSE RunQuery(cache, val)

ValidationOf(lat, lon, v) ==
    [called |-> TRUE, lat |-> lat, lon |-> lon, ret |-> v.ret, warned |-> v.warned]

\* The handler from the float() calls on; p is their outcome.
Parsed(cache, lat_str, lon_str, p) ==
    IF p.exc = "ValueError"
    THEN [response |-> ErrorResponse(400, NumericMessage(lat_str, lon_str)),
          validation |-> NoValidation, query |-> NoQuery]
    ELSE IF p.exc # ""
    \* not a ValueError: the outer except
    THEN [response |-> OuterExcept(p.exc),
          validation |-> NoValidation, query |-> NoQuery]
    ELSE Bind(validate_coordinates(p.lat, p.lon),
              LAMBDA v : Validated(cache, ValidationOf(p.lat, p.lon, v)))

\* The handler from the presence check on.
WithParams(cache, lat_str, lon_str) ==
    IF ParamsMissing(lat_str, lon_str)
    THEN [response |-> ErrorResponse(400, MissingMessage),
          validation |-> NoValidation, query |-> NoQuery]
    ELSE Bind(ParseCoordinates(lat_str, lon_str),
              LAMBDA p : Parsed(cache, lat_str, lon_str, p))

\* The handler after the cold-start load, on the cache the load left:
\* [response, validation, query].
HandleRequest(cache, event) ==
    WithParams(cache, DictGet(QueryParams(event), "lat"), DictGet(QueryParams(event), "lon"))

\* lambda_handler(event, context): [cache, fetches, response, trace]; cold
\* tells that the invocation found the store empty and ran load_layers.
lambda_handler(cache, fetched, event, o) ==
    Bind(IF ColdStart(cache) THEN load_layers(cache, fetched, o)
         ELSE [cache |-> cache, fetches |-> fetched],
         LAMBDA st : Bind(HandleRequest(st.cache, event),
             LAMBDA h : [cache |-> st.cache, fetches |-> st.fetches, response |-> h.response,
                         trace |-> [cold |-> ColdStart(cache), validation |-> h.validation,
                                    query |-> h.query]]))

\* ------------------------------------------------------------------ inputs
Missing == [t |-> "missing"]

LatInputs ==
    { Missing, PyStr(""), PyStr("not-a-number"), PyStr("nan"), PyList, PyInt(0),
      PyStr("34.0"), PyStr("34.3"), PyStr("33.8"), PyStr("35.0"),
      PyStr("90.0"), PyStr("91.0"), PyStr("-91.0") }

LonInputs ==
    { Missing, PyStr("abc"), PyList, PyFloat(-1182),
      PyStr("-118.2"), PyStr("-120.0"),
      PyStr("-180.0"), PyStr("181.0"), PyStr("-181.0") }

OtherPairs ==
    { <<Missing, Missing>>, <<PyStr("91.0"), PyStr("181.0")>>,
      <<PyList, PyStr("abc")>>, <<PyStr("not-a-number"), PyList>>,
      <<PyStr("nan"), PyStr("-181.0")>>, <<PyStr("35.0"), PyStr("-120.0")>>,
      <<PyStr("34.3"), PyFloat(-1182)>>, <<PyStr("90.0"), PyStr("-180.0")>> }

\* A request pairs any latitude with a longitude that passes every check, or
\* any longitude with such a latitude, or is one of OtherPairs.
CoordinatePairs ==
    {pr \in LatInputs \X LonInputs : pr[1] = PyStr("34.0") \/ pr[2] = PyStr("-118.2")}
        \cup OtherPairs

QueryDict(la, lo) ==
    LET d1 == IF la = Missing THEN EmptyDict ELSE DictSet(EmptyDict, "lat", la)
    IN IF lo = Missing THEN d1 ELSE DictSet(d1, "lon", lo)

Events ==
    {EmptyDict, DictSet(EmptyDict, "queryStringParameters", PyNone)}
      \cup {DictSet(EmptyDict, "queryStringParameters", QueryDict(pr[1], pr[2])) :
                pr \in CoordinatePairs}

\* The deliveries of the fetches of the layers in need, one per layer.
Deliveries(need) ==
    {o \in [need -> UNION {FetchOutcomes(LAYERS[i]) : i \in 1..Len(LAYERS)}] :
        \A i \in need : o[i] \in FetchOutcomes(LAYERS[i])}

NoResponse == [statusCode |-> 0, headers |-> EmptyDict, body |-> [status |-> ""]]

\* ------------------------------------------------ apportionment: numbers
\* Areas, weights and apportioned values are Python floats; the model
\* computes them as exact fractions in lowest terms (rounding is left out).
RECURSIVE GCD(_, _)
GCD(a, b) == IF b = 0 THEN a ELSE GCD(b, a % b)

Abs(n) == IF n < 0 THEN -n ELSE n

Rat(n, d) ==
    LET g == IF n = 0 /\ d = 0 THEN 1 ELSE GCD(Abs(n), Abs(d))
        s == IF d < 0 THEN -1 ELSE 1
    IN [num |-> (s * n) \div g, den |-> (s * d) \div g]

RatOf(n) == [num |-> n, den |-> 1]
RatAdd(a, b) == Rat(a.num * b.den + b.num * a.den, a.den * b.den)
RatMul(a, b) == Rat(a.num * b.num, a.den * b.den)
RatLe(a, b) == a.num * b.den <= b.num * a.den

\* A null of a float column (NaN): no fraction has the denominator 0.
NaN == [num |-> 0, den |-> 0]
IsNaN(x) == x.den = 0

\* Series.sum() of a sequence of numbers.
RECURSIVE SumSeq(_)
SumSeq(s) == IF Len(s) = 0 THEN RatOf(0) ELSE RatAdd(s[1], SumSeq(Tail(s)))

\* ----------------------------------------------- apportionment: geometry
\* In EPSG:3310 the plane is a west-east strip of NumCells cells of equal
\* area; a geometry is the set of cells it covers, its area their number.
Cells == 1..NumCells
Area(g) == Cardinality(g)
Intersection(g, h) == g \cap h
MinCell(g) == CHOOSE c \in g : \A d \in g : c <= d
MaxCell(g) == CHOOSE c \in g : \A d \in g : d <= c

\* Two geometries share a boundary and no area.
Touches(g, h) == g \cap h = {} /\ \E c \in g, d \in h : c - d \in {-1, 1}

\* str.startswith
StartsWith(s, prefix) == Len(s) >= Len(prefix) /\ SubSeq(s, 1, Len(prefix)) = prefix

\* ---------------------------------------------------- get_layer_id_field
get_layer_id_field(layer_name, config) ==
    LET layer_config == IF layer_name \in DOMAIN config THEN config[layer_name] ELSE EmptyDict
        id_field == DictGet(layer_config, "id_field")
        name_field == DictGet(layer_config, "name_field")
    IN IF id_field = PyNone \/ id_field = PyStr("null")
       THEN IF Truthy(name_field) /\ name_field # PyStr("null") THEN name_field.s ELSE "id"
       ELSE id_field.s

\* ----------------------------------------------------- census_bbox_filter
\* target.total_bounds
total_bounds(targets) ==
    LET u == UNION {targets.rows[j].geometry : j \in 1..Len(targets.rows)}
    IN [minx |-> MinCell(u) - 1, maxx |-> MaxCell(u)]

\* A filter to the box of the first target alone.
FilterToFirstTarget(blocks, targets) ==
    [blocks EXCEPT !.rows =
        SelectSeq(@, LAMBDA row :
            /\ MinCell(row.geometry) - 1 <= MaxCell(targets.rows[1].geometry)
            /\ MaxCell(row.geometry) >= MinCell(targets.rows[1].geometry) - 1)]

\* blocks.cx[...] with the box grown by buffer_deg, which is less than a
\* cell: the blocks whose extent meets the closed box.
census_bbox_filter(blocks, targets) ==
    LET b == total_bounds(targets)
        Keep(row) == MinCell(row.geometry) - 1 <= b.maxx /\ MaxCell(row.geometry) >= b.minx
    IN [blocks EXCEPT !.rows = SelectSeq(@, Keep)]

\* ------------------------------------------- apportion_blocks_to_targets
\* A table is [columns, rows]; a block row is [block_geoid, geometry, vals],
\* a target row [geometry, vals], vals mapping the columns to values.
Elems(s) == {s[k] : k \in 1..Len(s)}

missing_cols(blocks, value_cols) == Elems(value_cols) \ blocks.columns

\* The missing columns filled with ones.
FillMissingOnes(blocks, value_cols) ==
    [columns |-> blocks.columns \cup missing_cols(blocks, value_cols),
     rows |-> [i \in 1..Len(blocks.rows) |->
                 [blocks.rows[i] EXCEPT !.vals =
                    [c \in blocks.columns \cup missing_cols(blocks, value_cols) |->
                       IF c \in blocks.columns THEN blocks.rows[i].vals[c] ELSE 1]]]]

\* blocks[col] = 0 for the missing columns.
FillMissing(blocks, value_cols) ==
    LET cols == blocks.columns \cup missing_cols(blocks, value_cols)
        Fill(row) == [row EXCEPT !.vals = [c \in cols |-> IF c \in blocks.columns
                                                          THEN row.vals[c] ELSE 0]]
    IN [columns |-> cols, rows |-> [i \in 1..Len(blocks.rows) |-> Fill(blocks.rows[i])]]

\* targets_proj['target_id'] = range(len(targets_proj)) when the id field is
\* no column of the targets: [targets, field].
AddTargetId(targets, target_id_field) ==
    IF target_id_field \in targets.columns
    THEN [targets |-> targets, field |-> target_id_field]
    ELSE [targets |->
            [columns |-> targets.columns \cup {"target_id"},
             rows |-> [j \in 1..Len(targets.rows) |->
                         [targets.rows[j] EXCEPT !.vals =
                            [c \in targets.columns \cup {"target_id"} |->
                               IF c = "target_id" THEN PyInt(j - 1)
                               ELSE targets.rows[j].vals[c]]]]],
          field |-> "target_id"]

\* Pairs (block row, target row) in row order, blocks first.
AllPairs(nb, nt) == [k \in 1..(nb * nt) |-> <<((k - 1) \div nt) + 1, ((k - 1) % nt) + 1>>]

\* The pairs gpd.overlay can return as zero-area polygons: a block and a
\* target that only share a boundary.
TouchingPairs(blocks, targets) ==
    {p \in (1..Len(blocks.rows)) \X (1..Len(targets.rows)) :
        Touches(blocks.rows[p[1]].geometry, targets.rows[p[2]].geometry)}

\* gpd.overlay(blocks_proj, targets_proj, how='intersection'): a piece for
\* every block and target that share area, and for the pairs in artifacts.
\* The column names of the two tables are distinct.
Overlay(blocks, targets, artifacts) ==
    LET HasPiece(p) ==
            \/ Intersection(blocks.rows[p[1]].geometry, targets.rows[p[2]].geometry) # {}
            \/ p \in artifacts
        prs == SelectSeq(AllPairs(Len(blocks.rows), Len(targets.rows)), HasPiece)
    IN [k \in 1..Len(prs) |->
          [block_geoid |-> blocks.rows[prs[k][1]].block_geoid,
           bvals |-> blocks.rows[prs[k][1]].vals,
           tvals |-> targets.rows[prs[k][2]].vals,
           target |-> prs[k][2],
           geometry |-> Intersection(blocks.rows[prs[k][1]].geometry,
                                     targets.rows[prs[k][2]].geometry)]]

\* intersected.groupby('block_geoid')['intersection_area_m2'].sum(): the
\* areas of the pieces of each block, in row order, summed.
block_totals(intersected) ==
    [g \in {intersected[k].block_geoid : k \in 1..Len(intersected)} |->
        SumSeq([k \in 1..Len(SelectSeq(intersected, LAMBDA p : p.block_geoid = g)) |->
                  RatOf(Area(SelectSeq(intersected, LAMBDA p : p.block_geoid = g)[k].geometry))])]

RECURSIVE SumOver(_, _)
SumOver(f, S) ==
    IF S = {} THEN RatOf(0)
    ELSE LET x == CHOOSE y \in S : TRUE IN RatAdd(f[x], SumOver(f, S \ {x}))

\* 1 / r for r > 0.
Inverse(r) == [num |-> r.den, den |-> r.num]

\* A weight that divides by the area of the pieces of all blocks together.
WeightOfAll(area, totals, block_geoid) ==
    IF SumOver(totals, DOMAIN totals).num > 0
    THEN RatMul(RatOf(area), Inverse(SumOver(totals, DOMAIN totals)))
    ELSE RatOf(0)

\* The weight lambda of intersected.apply(...): area / block total, else 0.
Weight(area, totals, block_geoid) ==
    IF block_geoid \in DOMAIN totals /\ totals[block_geoid].num > 0
    THEN RatMul(RatOf(area), Inverse(totals[block_geoid]))
    ELSE RatOf(0)

\* intersected with the columns intersection_area_m2 and weight.
Weigh(intersected) ==
    Bind(block_totals(intersected),
         LAMBDA totals :
            [k \in 1..Len(intersected) |->
               [block_geoid |-> intersected[k].block_geoid,
                bvals |-> intersected[k].bvals,
                tvals |-> intersected[k].tvals,
                target |-> intersected[k].target,
                geometry |-> intersected[k].geometry,
                intersection_area_m2 |-> Area(intersected[k].geometry),
                weight |-> Weight(Area(intersected[k].geometry), totals,
                                  intersected[k].block_geoid)]])

\* A weighted value with the sign turned.
WeightedNegated(piece, col) ==
    IF col \in DOMAIN piece.bvals
    THEN RatMul(RatOf(0 - piece.bvals[col]), piece.weight)
    ELSE RatOf(0)

\* intersected[f'{col}_weighted']: value times weight, 0 for a column the
\* pieces do not have.
Weighted(piece, col) ==
    IF col \in DOMAIN piece.bvals
    THEN RatMul(RatOf(piece.bvals[col]), piece.weight)
    ELSE RatOf(0)

\* The descriptive columns carried through: columns of the pieces that are
\* neither excluded, nor pop_/housing_ columns, nor the target id.
preserve_cols(columns, value_cols, target_id_field) ==
    {col \in columns :
        /\ col \notin {"geometry", "block_geoid", "intersection_area_m2", "weight",
                        "area_sqmi", "source_url", "fetched_at"}
        /\ col \notin Elems(value_cols)
        /\ col \notin {value_cols[k] \o "_weighted" : k \in 1..Len(value_cols)}
        /\ ~StartsWith(col, "pop_") /\ ~StartsWith(col, "housing_")
        /\ col # target_id_field}

\* The rows of one group of groupby(target_id_field), in row order.
GroupOf(weighted, target_id_field, id) ==
    SelectSeq(weighted, LAMBDA p : p.tvals[target_id_field] = id)

\* agg 'first' in place of 'sum'.
AggFirst(group, col) == Weighted(group[1], col)

\* agg 'sum' of the weighted column of a group.
AggSum(group, col) == SumSeq([k \in 1..Len(group) |-> Weighted(group[k], col)])

\* The record of one group: the sums under the value column names, the
\* first value of each descriptive column, and the number of distinct blocks.
RecordOf(group, id, value_cols, preserve) ==
    [id |-> id,
     counts |-> [col \in Elems(value_cols) |-> AggSum(group, col)],
     attrs |-> [col \in preserve |-> group[1].tvals[col]],
     source_blocks_count |-> Cardinality({group[k].block_geoid : k \in 1..Len(group)})]

\* The empty DataFrame returned when nothing intersects.
EmptyFrame == [records |-> <<>>, pieces |-> <<>>, id_field |-> ""]

\* groupby(target_id_field).agg(...), rename, merge of the block counts: the
\* records by target id (the row order, sorted by id, is not kept).
Aggregate(weighted, target_id_field, columns, value_cols) ==
    [records |->
        [id \in {weighted[k].tvals[target_id_field] : k \in 1..Len(weighted)} |->
            RecordOf(GroupOf(weighted, target_id_field, id), id, value_cols,
                     preserve_cols(columns, value_cols, target_id_field))],
     pieces |-> weighted,
     id_field |-> target_id_field]

\* The function after the overlay.
Apportioned(intersected, target_id_field, columns, value_cols) ==
    IF Len(intersected) = 0 THEN EmptyFrame
    ELSE Bind(Weigh(intersected),
              LAMBDA w : Aggregate(w, target_id_field, columns, value_cols))

\* apportion_blocks_to_targets(blocks, targets, target_id_field, value_cols);
\* pieces and id_field are kept beside the records returned.
apportion_blocks_to_targets(blocks, targets, target_id_field, value_cols, artifacts) ==
    Bind(<<FillMissing(blocks, value_cols), AddTargetId(targets, target_id_field)>>,
         LAMBDA a :
            Apportioned(Overlay(a[1], a[2].targets, artifacts), a[2].field,
                        a[1].columns \cup a[2].targets.columns, value_cols))

\* --------------------------------------------------------- apportion_layer
\* list(column_mapping.values()) of the census section of the configuration.
ValueCols(config) ==
    IF "census" \in DOMAIN config THEN config["census"].column_mapping ELSE <<>>

\* apportion_layer(layer_name, config, input_dir, output_dir, census_blocks):
\* [ok, apportioned, output], output the demographics file it leaves.
apportion_layer(layer_name, config, target_file, census_blocks, output, artifacts) ==
    IF target_file = PyNone
    THEN [ok |-> FALSE, apportioned |-> EmptyFrame, output |-> output]
    ELSE Bind(apportion_blocks_to_targets(census_bbox_filter(census_blocks, target_file),
                                          target_file,
                                          get_layer_id_field(layer_name, config),
                                          ValueCols(config), artifacts),
              LAMBDA ap :
                 IF DOMAIN ap.records = {}
                 THEN [ok |-> FALSE, apportioned |-> ap, output |-> output]
                 ELSE [ok |-> TRUE, apportioned |-> ap,
                       output |-> [records |-> ap.records, census_vintage |-> 2020,
                                   source_layer |-> layer_name]])

\* ------------------------------------------------ validate_apportionment
\* source_blocks[col].sum()
source_total(source_blocks, col) ==
    SumSeq([i \in 1..Len(source_blocks.rows) |-> RatOf(source_blocks.rows[i].vals[col])])

\* abs(apportioned_total - source_total) / source_total * 100, source_total > 0
diff_pct(apportioned, source) ==
    RatMul(RatMul(Rat(Abs(apportioned.num * source.den - source.num * apportioned.den),
                      apportioned.den * source.den),
                  Inverse(source)),
           RatOf(100))

\* A comparison that also fails a difference equal to the tolerance.
ReachesTolerance(diff, tolerance_pct) == RatLe(tolerance_pct, diff)

\* diff_pct > tolerance_pct
ExceedsTolerance(diff, tolerance_pct) == ~RatLe(diff, tolerance_pct)

\* A column that is checked whatever its source total is.
CheckedAlways(source) == TRUE

\* source_total > 0
Checked(source) == source.num > 0

\* The line printed for a column with the totals s and a: the mark, the two
\* totals, and whether the column sets all_valid to False.
LineOf(s, a, tolerance_pct) ==
    [status |-> IF ~Checked(s) THEN "-"
                ELSE IF RatLe(diff_pct(a, s), tolerance_pct) THEN "ok" ELSE "x",
     source |-> s,
     apportioned |-> a,
     failed |-> Checked(s) /\ ExceedsTolerance(diff_pct(a, s), tolerance_pct)]

\* validate_apportionment(source_blocks, apportioned_totals, value_cols,
\* tolerance_pct): [exc, all_valid, report], report the table it prints.
\* source_blocks[col] raises KeyError for a column the blocks do not have;
\* apportioned_totals.get(col, 0) is 0 for a column the dict does not have.
validate_apportionment(source_blocks, apportioned_totals, value_cols, tolerance_pct) ==
    IF \E col \in Elems(value_cols) : col \notin source_blocks.columns
    THEN [exc |-> "KeyError", all_valid |-> FALSE, report |-> <<>>]
    ELSE Bind([col \in Elems(value_cols) |->
                  LineOf(source_total(source_blocks, col),
                         IF col \in DOMAIN apportioned_totals
                         THEN apportioned_totals[col] ELSE RatOf(0),
                         tolerance_pct)],
              LAMBDA report :
                 [exc |-> "", all_valid |-> \A col \in Elems(value_cols) : ~report[col].failed,
                  report |-> report])

\* ---------------------------------------------------------- validate_layer
\* Known population benchmarks (2020 Census).
BENCHMARKS ==
    [la_county_boundary |-> [pop_total |-> 10014009, tolerance_pct |-> Rat(1, 10)],
     la_city_boundary |-> [pop_total |-> 3898747, tolerance_pct |-> Rat(5, 2)]]

\* The columns of a demographics file.
FileColumns(apportioned) ==
    UNION {DOMAIN apportioned.records[id].counts : id \in DOMAIN apportioned.records}

\* The value columns the file has.
Present(apportioned, value_cols) == Elems(value_cols) \cap FileColumns(apportioned)

\* (apportioned[col] < 0).sum() > 0 for some value column of the file.
has_negatives(apportioned, value_cols) ==
    \E col \in Present(apportioned, value_cols) :
        \E id \in DOMAIN apportioned.records : apportioned.records[id].counts[col].num < 0

\* apportioned[col].isna().sum() > 0 for some value column of the file.
has_nulls(apportioned, value_cols) ==
    \E col \in Present(apportioned, value_cols) :
        \E id \in DOMAIN apportioned.records : IsNaN(apportioned.records[id].counts[col])

\* blocks_filtered[blocks_filtered.intersects(targets_union)]: the blocks
\* that share area or boundary with the union of the targets.
blocks_relevant(census_blocks, targets) ==
    Bind(UNION {targets.rows[j].geometry : j \in 1..Len(targets.rows)},
         LAMBDA targets_union :
            [columns |-> census_blocks.columns,
             rows |-> SelectSeq(census_bbox_filter(census_blocks, targets).rows,
                                LAMBDA row : \/ row.geometry \cap targets_union # {}
                                             \/ Touches(row.geometry, targets_union))])

\* apportioned[col].sum() of the value columns of the file; sum() skips nulls.
apportioned_totals(apportioned, value_cols) ==
    [col \in Present(apportioned, value_cols) |->
        SumOver([id \in DOMAIN apportioned.records |-> apportioned.records[id].counts[col]],
                {id \in DOMAIN apportioned.records :
                    ~IsNaN(apportioned.records[id].counts[col])})]

\* The conservation check of validate_layer: skipped, with True, when the
\* layer file does not exist.
conservation_valid(apportioned, target_file, census_blocks, value_cols, tolerance_pct) ==
    IF target_file = PyNone
    THEN [exc |-> "", all_valid |-> TRUE, report |-> <<>>]
    ELSE validate_apportionment(blocks_relevant(census_blocks, target_file),
                                apportioned_totals(apportioned, value_cols),
                                value_cols, tolerance_pct)

\* The benchmark check: for the layers of BENCHMARKS, when the file has
\* pop_total.
benchmark_valid(layer_name, apportioned, tolerance_pct) ==
    IF layer_name \in DOMAIN BENCHMARKS /\ "pop_total" \in FileColumns(apportioned)
    THEN RatLe(diff_pct(apportioned_totals(apportioned, <<"pop_total">>)["pop_total"],
                        RatOf(BENCHMARKS[layer_name].pop_total)),
               BENCHMARKS[layer_name].tolerance_pct)
    ELSE TRUE

\* A verdict that follows the conservation and benchmark checks alone.
VerdictOfTotals(negatives, nulls, conservation, benchmark) ==
    [valid |-> conservation /\ benchmark,
     has_negatives |-> negatives,
     has_nulls |-> nulls,
     conservation_valid |-> conservation,
     benchmark_valid |-> benchmark]

\* The dict returned for a file that exists.
Verdict(negatives, nulls, conservation, benchmark) ==
    [valid |-> ~negatives /\ ~nulls /\ conservation /\ benchmark,
     has_negatives |-> negatives,
     has_nulls |-> nulls,
     conservation_valid |-> conservation,
     benchmark_valid |-> benchmark]

\* validate_layer(layer_name, demographics_path, data_dir, census_blocks,
\* value_cols, tolerance_pct): [exc, value, report]; demographics is the
\* content of the demographics file, None when it does not exist.
validate_layer(layer_name, demographics, target_file, census_blocks, value_cols, tolerance_pct) ==
    IF demographics = PyNone
    THEN [exc |-> "", value |-> [valid |-> FALSE, reason |-> "file_not_found"], report |-> <<>>]
    ELSE Bind(conservation_valid(demographics, target_file, census_blocks, value_cols,
                                 tolerance_pct),
              LAMBDA c :
                 IF c.exc # ""
                 THEN [exc |-> c.exc, value |-> PyNone, report |-> <<>>]
                 ELSE [exc |-> "",
                       value |-> Verdict(has_negatives(demographics, value_cols),
                                         has_nulls(demographics, value_cols),
                                         c.all_valid,
                                         benchmark_valid(layer_name, demographics,
                                                         tolerance_pct)),
                       report |-> c.report])

\* A validator that removes the file of a layer it finds invalid.
RolledBack(file, outcome) ==
    IF outcome.exc = "" /\ ~outcome.value.valid THEN PyNone ELSE file

\* The demographics file after validate_layer: it is only read.
AfterValidation(file, outcome) == file

\* ------------------------------------------------- apportionment: inputs
\* The layer apportion_layer is run for, and the census section.
LayerName == "lapd_divisions"

\* The id_field/name_field entries config/layers.yml can give the layer.
LayerConfigs ==
    { [id_field |-> PyStr("id"), name_field |-> PyStr("name")],
      [id_field |-> PyNone, name_field |-> PyStr("name")],
      [id_field |-> PyStr("null"), name_field |-> PyStr("null")],
      [id_field |-> PyNone, name_field |-> PyNone] }

ConfigOf(layer_config) ==
    [lapd_divisions |-> layer_config, census |-> [column_mapping |-> <<"pop_total", "housing_total">>]]

Intervals == {a..b : a \in Cells, b \in Cells} \ {{}}

\* One census block of two cells, or two adjacent blocks of one or two cells.
BlockLayouts ==
    {<<g>> : g \in {i \in Intervals : Area(i) = 2}}
      \cup {l \in {<<g, h>> : g \in {i \in Intervals : Area(i) <= 2},
                              h \in {i \in Intervals : Area(i) <= 2}} :
              MaxCell(l[1]) + 1 = MinCell(l[2])}

\* A target polygon: an interval of cells, or the first cell together with
\* an interval further east (a multipolygon).
TargetShapes ==
    Intervals \cup {{1} \cup j : j \in {i \in Intervals : MinCell(i) >= 3}}

\* West to east, then by extent and area: a shape has one key.
ShapeKey(g) == (MinCell(g) * NumCells + MaxCell(g)) * NumCells + Area(g)

\* One target, or two listed from the west.
TargetLayouts ==
    {<<g>> : g \in TargetShapes}
      \cup {l \in {<<g, h>> : g \in TargetShapes, h \in TargetShapes} :
              ShapeKey(l[1]) <= ShapeKey(l[2])}

\* blocks_2020_enriched: pops[i] people in block i; housing tells whether the
\* table has the housing column.
BlocksTable(layout, pops, housing) ==
    [columns |-> IF housing THEN {"pop_total", "housing_total"} ELSE {"pop_total"},
     rows |-> [i \in 1..Len(layout) |->
                 [block_geoid |-> <<"060371011101000", "060371011101001">>[i], geometry |-> layout[i],
                  vals |-> IF housing
                           THEN [pop_total |-> pops[i], housing_total |-> 40]
                           ELSE [pop_total |-> pops[i]]]]]

TargetIds == <<"1", "2">>

\* <layer>.geojson: with or without an id column, the names distinct or all
\* the same.
TargetsTable(layout, withId, sameName) ==
    [columns |-> IF withId THEN {"id", "name"} ELSE {"name"},
     rows |-> [j \in 1..Len(layout) |->
                 [geometry |-> layout[j],
                  vals |-> IF withId
                           THEN [id |-> PyStr(TargetIds[j]),
                                 name |-> PyStr(<<"Central", "Rampart">>[IF sameName THEN 1 ELSE j])]
                           ELSE [name |-> PyStr(<<"Central", "Rampart">>[IF sameName THEN 1 ELSE j])]]]]

\* People per block: 100 in the first, 0 or 100 in the others.
Pops(layout) == {p \in [1..Len(layout) -> {0, 100}] : p[1] = 100}

\* The geometries every schema and configuration is tried with.
CoreGeometries ==
    { [blocks |-> <<{1, 2}, {3, 4}>>, targets |-> <<{1}, {2, 3, 4}>>],
      [blocks |-> <<{1, 2}, {3, 4}>>, targets |-> <<{1, 3, 4}>>],
      [blocks |-> <<{1, 2}>>, targets |-> <<{1}, {4}>>],
      [blocks |-> <<{1, 2}, {3, 4}>>, targets |-> <<{1, 2, 3}, {2, 3, 4}>>] }

BaseConfig == ConfigOf([id_field |-> PyStr("id"), name_field |-> PyStr("name")])

\* What is on disk before a run: the block table, the layer file (None when
\* it does not exist) and the configuration.  Every geometry with the usual
\* schema, the core geometries with every schema and configuration.
NoFileWorld ==
    [blocks |-> BlocksTable(<<{1, 2}>>, <<100>>, TRUE), targets |-> PyNone, config |-> BaseConfig]

Worlds ==
    UNION { { [blocks |-> BlocksTable(b, p, TRUE), targets |-> TargetsTable(t, TRUE, FALSE),
               config |-> BaseConfig] : p \in Pops(b), t \in TargetLayouts } :
            b \in BlockLayouts }
      \cup { [blocks |-> BlocksTable(g.blocks, [i \in 1..Len(g.blocks) |-> 100], v[1]),
              targets |-> TargetsTable(g.targets, v[2], v[3]),
              config |-> ConfigOf(c)] :
                g \in CoreGeometries, v \in BOOLEAN \X BOOLEAN \X BOOLEAN, c \in LayerConfigs }
      \cup {NoFileWorld}

\* The zero-area pieces an overlay returns: none, one, or all it can.
ArtifactChoices(blocks, targets) ==
    {{}} \cup {{p} : p \in TouchingPairs(blocks, targets)} \cup {TouchingPairs(blocks, targets)}

NoRun == [ran |-> FALSE, ok |-> FALSE, apportioned |-> EmptyFrame]

\* --------------------------------------------------- validation: inputs
\* What the validator is run on.  The geometries: an exact tiling, one block
\* under one target, a block that only touches the target, a block beyond
\* the bounding box of the target, and two targets that overlap.  Blocks of
\* 0 or 100 people, with or without the housing column; the layer file
\* exists, or (last) does not.
ValidatorWorlds ==
    UNION { { [blocks |-> BlocksTable(g.blocks, p, h),
               targets |-> TargetsTable(g.targets, TRUE, FALSE),
               config |-> BaseConfig] : p \in [1..Len(g.blocks) -> {0, 100}], h \in BOOLEAN } :
            g \in { [blocks |-> <<{1, 2}, {3, 4}>>, targets |-> <<{1, 2}, {3, 4}>>],
                    [blocks |-> <<{1, 2}>>, targets |-> <<{1, 2}>>],
                    [blocks |-> <<{1, 2}, {3, 4}>>, targets |-> <<{1, 2}>>],
                    [blocks |-> <<{1, 2}, {3, 4}>>, targets |-> <<{1}>>],
                    [blocks |-> <<{1, 2}, {3, 4}>>, targets |-> <<{1, 2, 3}, {2, 3, 4}>>] } }
      \cup {NoFileWorld,
            [blocks |-> BlocksTable(<<{1, 2}>>, <<0>>, TRUE), targets |-> PyNone,
             config |-> BaseConfig]}

\* A demographics file left by an earlier run or edited since: records "1",
\* "2", ... with the given pop_total, and housing_total 40 when housing.
StoredFile(pops, housing) ==
    [records |->
        [id \in {PyStr(TargetIds[j]) : j \in 1..Len(pops)} |->
            [id |-> id,
             counts |-> IF housing
                        THEN [pop_total |-> pops[CHOOSE j \in 1..Len(pops) : PyStr(TargetIds[j]) = id],
                              housing_total |-> RatOf(40)]
                        ELSE [pop_total |-> pops[CHOOSE j \in 1..Len(pops) : PyStr(TargetIds[j]) = id]],
             attrs |-> [name |-> PyStr("Central")],
             source_blocks_count |-> 1]],
     census_vintage |-> 2020,
     source_layer |-> LayerName]

StoredFiles ==
    {StoredFile(<<v>>, h) : v \in {RatOf(99), RatOf(98), RatOf(0 - 5), NaN}, h \in BOOLEAN}
      \cup {StoredFile(<<NaN, RatOf(100)>>, TRUE)}

\* No run of the validator yet.
NoResult == [ran |-> FALSE, tolerance |-> RatOf(0), exc |-> "", value |-> PyNone, report |-> <<>>]

\* ------------------------------------------------------------------- state
\* layer_cache: _layer_cache.  fetches: calls of load_geojson_from_url per
\* layer name in this process.  event, response: the last invocation of
\* lambda_handler and what it returned.  trace: what that invocation did.
\* For invocations that overlap in time (ConcSpec): pc, idx, delivered are
\* each invocation's position in lambda_handler/load_layers, its loop index
\* and the result of its pending fetch; observed is the store as the
\* invocation saw it when it ran its query, answered what it returned.
\* For the apportionment script: census_blocks, target_file and config are
\* what it reads, demographics the file it writes (None before), apportion
\* what the last run of apportion_layer returned and computed, result what
\* the last run of validate_layer returned and printed, and its tolerance.
VARIABLES layer_cache, fetches, event, response, trace,
          pc, idx, delivered, observed, answered,
          census_blocks, target_file, config, demographics, apportion, result

vars == <<layer_cache, fetches, event, response, trace,
          pc, idx, delivered, observed, answered,
          census_blocks, target_file, config, demographics, apportion, result>>

lookupVars == <<layer_cache, fetches, event, response, trace,
                pc, idx, delivered, observed, answered>>
worldVars == <<census_blocks, target_file, config>>
scriptVars == <<census_blocks, target_file, config, demographics, apportion, result>>

seqVars == <<event, response, trace>>
concVars == <<pc, idx, delivered, observed, answered>>

Invocations == 1..NumInvocations

NoDelivery == [exc |-> "", features |-> <<>>]

\* The lookup process as it starts.
LookupInit ==
    /\ layer_cache = <<>>
    /\ fetches = [n \in LayerNames |-> 0]
    /\ event = EmptyDict
    /\ response = NoResponse
    /\ trace = [cold |-> FALSE, validation |-> NoValidation, query |-> NoQuery]
    /\ pc = [t \in Invocations |-> "idle"]
    /\ idx = [t \in Invocations |-> 0]
    /\ delivered = [t \in Invocations |-> NoDelivery]
    /\ observed = [t \in Invocations |-> <<>>]
    /\ answered = [t \in Invocations |-> NoResponse]

\* The script has not run; w is what is on disk.
ScriptInit(w) ==
    /\ census_blocks = w.blocks
    /\ target_file = w.targets
    /\ config = w.config
    /\ demographics = PyNone
    /\ apportion = NoRun
    /\ result = NoResult

Init == LookupInit /\ ScriptInit(NoFileWorld)

\* ------------------------------------------- one invocation at a time (Spec)
\* A direct call of load_layers().
LoadLayers ==
    /\ \A n \in LayerNames : fetches[n] < MaxFetches
    /\ \E o \in Deliveries(ToFetch(layer_cache)) :
         \E st \in {load_layers(layer_cache, fetches, o)} :
            /\ layer_cache' = st.cache
            /\ fetches' = st.fetches
    /\ UNCHANGED seqVars
    /\ UNCHANGED concVars
    /\ UNCHANGED scriptVars

\* One invocation lambda_handler(ev, context).
LambdaHandler ==
    /\ \E ev \in Events :
         \E o \in Deliveries(IF ColdStart(layer_cache) THEN ToFetch(layer_cache) ELSE {}) :
           \E r \in {lambda_handler(layer_cache, fetches, ev, o)} :
              /\ layer_cache' = r.cache
              /\ fetches' = r.fetches
              /\ event' = ev
              /\ response' = r.response
              /\ trace' = r.trace
    /\ UNCHANGED concVars
    /\ UNCHANGED scriptVars

Next == LoadLayers \/ LambdaHandler
Spec == Init /\ [][Next]_vars

\* ------------------------------------- overlapping invocations (ConcSpec)
\* lambda_handler run by several invocations of one process whose steps
\* interleave; the fetch (urlopen) is where an invocation waits.

\* The requests of the overlapping invocations.
ConcEvents ==
    { DictSet(EmptyDict, "queryStringParameters", QueryDict(PyStr("34.0"), PyStr("-118.2"))),
      DictSet(EmptyDict, "queryStringParameters", QueryDict(PyStr("34.0"), Missing)) }

\* lambda_handler is entered: `if not _layer_cache`.
Enter(t) ==
    /\ pc[t] = "idle"
    /\ IF ColdStart(layer_cache)
       THEN pc' = [pc EXCEPT ![t] = "loop"] /\ idx' = [idx EXCEPT ![t] = 1]
       ELSE pc' = [pc EXCEPT ![t] = "handle"] /\ UNCHANGED idx
    /\ UNCHANGED <<layer_cache, fetches, delivered, observed, answered>>
    /\ UNCHANGED seqVars
    /\ UNCHANGED scriptVars

\* The head of the loop of load_layers: next layer, `Skip if already loaded`.
LoopHead(t) ==
    /\ pc[t] = "loop"
    /\ IF idx[t] > Len(LAYERS)
       THEN pc' = [pc EXCEPT ![t] = "handle"] /\ UNCHANGED idx
       ELSE IF SkipIfLoaded(layer_cache, LAYERS[idx[t]].name)
       THEN idx' = [idx EXCEPT ![t] = @ + 1] /\ UNCHANGED pc
       ELSE pc' = [pc EXCEPT ![t] = "fetch"] /\ UNCHANGED idx
    /\ UNCHANGED <<layer_cache, fetches, delivered, observed, answered>>
    /\ UNCHANGED seqVars
    /\ UNCHANGED scriptVars

\* load_geojson_from_url for the layer at hand returns or raises.
Fetch(t) ==
    /\ pc[t] = "fetch"
    /\ \E o \in FetchOutcomes(LAYERS[idx[t]]) :
         delivered' = [delivered EXCEPT ![t] = o]
    /\ fetches' = [fetches EXCEPT ![LAYERS[idx[t]].name] = @ + 1]
    /\ pc' = [pc EXCEPT ![t] = "store"]
    /\ UNCHANGED <<layer_cache, idx, observed, answered>>
    /\ UNCHANGED seqVars
    /\ UNCHANGED scriptVars

\* The rest of the loop body: the entry, Loaded or Failed, is assigned.
Store(t) ==
    /\ pc[t] = "store"
    /\ layer_cache' = CacheSet(layer_cache, LoadOneLayer(LAYERS[idx[t]], delivered[t]))
    /\ delivered' = [delivered EXCEPT ![t] = NoDelivery]
    /\ idx' = [idx EXCEPT ![t] = @ + 1]
    /\ pc' = [pc EXCEPT ![t] = "loop"]
    /\ UNCHANGED <<fetches, observed, answered>>
    /\ UNCHANGED seqVars
    /\ UNCHANGED scriptVars

\* The handler from the parsing of the request to its return.
Handle(t) ==
    /\ pc[t] = "handle"
    /\ \E ev \in ConcEvents :
         \E h \in {HandleRequest(layer_cache, ev)} :
            answered' = [answered EXCEPT ![t] = h.response]
    /\ observed' = [observed EXCEPT ![t] = layer_cache]
    /\ pc' = [pc EXCEPT ![t] = "done"]
    /\ UNCHANGED <<layer_cache, fetches, idx, delivered>>
    /\ UNCHANGED seqVars
    /\ UNCHANGED scriptVars

ConcNext == \E t \in Invocations : Enter(t) \/ LoopHead(t) \/ Fetch(t) \/ Store(t) \/ Handle(t)
ConcSpec == Init /\ [][ConcNext]_vars

\* ------------------------------------- one invocation, step by step (LoadSpec)
\* The first invocation of a cold process alone.  Inside load_layers it goes
\* on: urlopen returns or raises within its timeout, and the loop body runs
\* to its end.
LoadNext == Enter(1) \/ LoopHead(1) \/ Fetch(1) \/ Store(1) \/ Handle(1)
LoadSpec ==
    Init /\ [][LoadNext]_vars
         /\ WF_vars(LoopHead(1)) /\ WF_vars(Fetch(1)) /\ WF_vars(Store(1))

\* ------------------------------------ the apportionment script (ScriptSpec)
\* One run of apportion_layer for the layer, on what is on disk.
ApportionLayer ==
    /\ \E art \in (IF target_file = PyNone THEN {{}}
                    ELSE ArtifactChoices(census_bbox_filter(census_blocks, target_file),
                                         target_file)) :
         \E r \in {apportion_layer(LayerName, config, target_file, census_blocks,
                                   demographics, art)} :
            /\ demographics' = r.output
            /\ apportion' = [ran |-> TRUE, ok |-> r.ok, apportioned |-> r.apportioned]
    /\ UNCHANGED worldVars
    /\ UNCHANGED result
    /\ UNCHANGED lookupVars

ScriptNext == ApportionLayer
\* The script starts on any of the worlds.
ScriptStart == \E w \in Worlds : LookupInit /\ ScriptInit(w)
ScriptSpec == ScriptStart /\ [][ScriptNext]_vars

\* ------------------------------- the validation script (ValidateSpec)
\* One run of validate_layer for the layer, on what is on disk, with the
\* tolerance given on the command line: the default 1.0, or 0, 50 or 100.
ValidateLayer ==
    /\ \E tolerance_pct \in {RatOf(0), RatOf(1), RatOf(50), RatOf(100)} :
         \E r \in {validate_layer(LayerName, demographics, target_file, census_blocks,
                                  ValueCols(config), tolerance_pct)} :
            /\ result' = [ran |-> TRUE, tolerance |-> tolerance_pct, exc |-> r.exc,
                          value |-> r.value, report |-> r.report]
            /\ demographics' = AfterValidation(demographics, r)
    /\ UNCHANGED worldVars
    /\ UNCHANGED apportion
    /\ UNCHANGED lookupVars

\* The two scripts are run by hand, in any order, any number of times.
ValidateNext == ApportionLayer \/ ValidateLayer
\* Neither script has run; w is what is on disk beside the demographics
\* file f, which an earlier run may have left.
ValidateStart ==
    \E w \in ValidatorWorlds, f \in {PyNone} \cup StoredFiles :
        /\ LookupInit
        /\ census_blocks = w.blocks
        /\ target_file = w.targets
        /\ config = w.config
        /\ demographics = f
        /\ apportion = NoRun
        /\ result = NoResult
ValidateSpec == ValidateStart /\ [][ValidateNext]_vars

\* ------------------------------------------------------------------ claims
\* The point, results and layer entries of the last invocation's query.
QueryPointOf == Point(trace.validation.lon, trace.validation.lat)
Results == response.body.results

\* Indices of the features of a loaded entry that contain the point.
Containing(entry, pt) ==
    {i \in 1..Len(entry.features) : GeomContains(entry.features[i].geometry, pt)}

FirstOf(S) == CHOOSE i \in S : \A j \in S : i <= j

\* The name-field value of feature i of an entry; None when the field, or
\* the whole property map, is absent.
NameValueOf(entry, i) ==
    IF entry.features[i].properties = PyNone THEN PyNone
    ELSE DictGet(entry.features[i].properties, entry.config.name_field)

\* The display string of a name value: the string itself, the decimal
\* digits of an integer, null for null.
Display(v) ==
    CASE v.t = "None" -> PyNone
      [] v.t = "str" -> PyStr(v.s)
      [] v.t = "int" /\ v.n = 7 -> PyStr("7")
      [] OTHER -> PyStr(ToStr(v))

\* The value a result map holds under a key.
ValueAt(results, key) == IF key \in DOMAIN results THEN results[key] ELSE [t |-> "absent"]

ResultOf(entry) == ValueAt(Results, entry.config.response_key)

Entries == {layer_cache[i] : i \in 1..Len(layer_cache)}

\* C1: whenever query_point has answered, the key set of its result map is
\* exactly the set of response keys of the configured layers, whichever
\* layers failed to load.
C1_OneEntryPerLayer ==
    trace.query.called => DOMAIN Results = ResponseKeys

C1_Witness ==
    /\ trace.query.called
    /\ \E e \in Entries : ~e.loaded
    /\ \E e \in Entries : e.loaded
    /\ DOMAIN Results = ResponseKeys

\* C2: for a point inside two or more features of a loaded layer the value
\* returned for the layer is the name of the first containing feature in
\* stored order; the same request against the same store gives the same
\* results.
C2_FirstInStoredOrder ==
    trace.query.called =>
        \A e \in Entries :
            (e.loaded /\ Cardinality(Containing(e, QueryPointOf)) >= 2) =>
                ResultOf(e) = Display(NameValueOf(e, FirstOf(Containing(e, QueryPointOf))))

C2_Repeatable ==
    (trace.query.called /\ trace'.query.called /\ event' = event /\ layer_cache' = layer_cache)
        => response'.body.results = response.body.results

C2_FirstMatchWins == []C2_FirstInStoredOrder /\ [][C2_Repeatable]_vars

C2_Witness ==
    /\ trace.query.called
    /\ ~trace.cold
    /\ \E e \in Entries :
         /\ e.loaded
         /\ Cardinality(Containing(e, QueryPointOf)) >= 2
         /\ ResultOf(e) = PyStr("Downtown")
         /\ NameValueOf(e, 2) = PyInt(7)

\* C3: for a point inside exactly one feature of a loaded layer the value
\* returned is that feature's name-field value as a string, and null when
\* the name-field value is null or the field is absent.
C3_SingleMatchStringified ==
    trace.query.called =>
        \A e \in Entries :
            (e.loaded /\ Cardinality(Containing(e, QueryPointOf)) = 1) =>
                ResultOf(e) = Display(NameValueOf(e, FirstOf(Containing(e, QueryPointOf))))

C3_Witness ==
    /\ trace.query.called
    /\ \E e \in Entries :
         /\ e.loaded /\ Containing(e, QueryPointOf) = {2}
         /\ NameValueOf(e, 2) = PyInt(7) /\ ResultOf(e) = PyStr("7")
    /\ \E e \in Entries :
         /\ e.loaded /\ Cardinality(Containing(e, QueryPointOf)) = 1
         /\ NameValueOf(e, FirstOf(Containing(e, QueryPointOf))) = PyNone
         /\ ResultOf(e) = PyNone

\* C4: for a point inside no feature of a loaded layer the value returned
\* for the layer is null.
C4_NoMatchIsNull ==
    trace.query.called =>
        \A e \in Entries :
            (e.loaded /\ Containing(e, QueryPointOf) = {}) => ResultOf(e) = PyNone

C4_Witness ==
    /\ trace.query.called
    /\ \E e \in Entries :
         /\ e.loaded /\ Len(e.features) > 0
         /\ Containing(e, QueryPointOf) = {} /\ ResultOf(e) = PyNone

\* C5: in one process no layer is fetched more than once, and no call of
\* load_layers or lambda_handler fetches a layer that is already cached.
C5_AtMostOneFetch == \A n \in LayerNames : fetches[n] <= 1

C5_NoRefetch ==
    \A n \in LayerNames : InCache(layer_cache, n) => fetches'[n] = fetches[n]

C5_LoadOnce == []C5_AtMostOneFetch /\ [][C5_NoRefetch]_vars

C5_Witness ==
    /\ response.statusCode = 200
    /\ ~trace.cold
    /\ \A n \in LayerNames : InCache(layer_cache, n) /\ fetches[n] = 1

\* C6: once load_layers has run every configured layer has a cache entry,
\* Loaded or Failed, whatever failed; a Failed entry stays as it is and its
\* layer is not fetched again.
C6_EveryLayerHasEntry ==
    layer_cache # <<>> => \A n \in LayerNames : InCache(layer_cache, n)

C6_FailedStays ==
    \A e \in Entries :
        ~e.loaded => /\ InCache(layer_cache', e.name)
                     /\ CacheGet(layer_cache', e.name) = e
                     /\ fetches'[e.name] = fetches[e.name]

C6_FailureIsolated == []C6_EveryLayerHasEntry /\ [][C6_FailedStays]_vars

C6_Witness ==
    /\ Len(layer_cache) = Len(LAYERS)
    /\ ~layer_cache[1].loaded /\ layer_cache[1].error = "timed out"
    /\ layer_cache[2].loaded
    /\ ~trace.cold /\ trace.query.called
    /\ fetches[layer_cache[1].name] = 1

\* The store with the entry of one layer replaced.
WithEntry(cache, entry) ==
    [i \in 1..Len(cache) |-> IF cache[i].name = entry.name THEN entry ELSE cache[i]]

\* The entries a layer has after a load without failure.
NormalEntries(cfg) ==
    {LoadOneLayer(cfg, o) : o \in {x \in FetchOutcomes(cfg) : LoadOneLayer(cfg, x).loaded}}

Degraded(e) == ~e.loaded \/ e.name \in trace.query.raised

\* C7: a layer that failed to load, or whose scan raised, has null under its
\* response key; the query completes and every other layer has the value it
\* would have had the degraded layer loaded normally.
C7_DegradedLayerOnly ==
    trace.query.called =>
        \A e \in Entries :
            Degraded(e) =>
                /\ response.statusCode = 200
                /\ ResultOf(e) = PyNone
                /\ \A alt \in NormalEntries(e.config) :
                     \A m \in Entries \ {e} :
                        ResultOf(m) =
                          ValueAt(query_point(WithEntry(layer_cache, alt), trace.validation.lat,
                                              trace.validation.lon).results,
                                  m.config.response_key)

C7_Witness ==
    /\ trace.query.called
    /\ response.statusCode = 200
    /\ ~layer_cache[1].loaded
    /\ ResultOf(layer_cache[1]) = PyNone
    /\ \E m \in Entries : ~Degraded(m) /\ ResultOf(m) = PyStr("Downtown")

\* C8: when invocations miss the cache for the same layer at the same time
\* the layer is fetched once only and the invocations observe the same
\* entry for it.
C8_LoadOnceUnderContention ==
    /\ \A n \in LayerNames : fetches[n] <= 1
    /\ \A t1, t2 \in Invocations :
         (pc[t1] = "done" /\ pc[t2] = "done") =>
             \A i \in 1..Len(observed[t1]) : \A j \in 1..Len(observed[t2]) :
                 observed[t1][i].name = observed[t2][j].name => observed[t1][i] = observed[t2][j]

\* x lies outside the closed interval lo..hi (tenths of a degree).
Outside(x, lo, hi) == x.k = "nan" \/ x.n < lo \/ x.n > hi

Rejected(word) ==
    trace.validation.ret # PyNone /\ StrContains(trace.validation.ret.s, word)

\* C9: validate_coordinates returns a message with "latitude" exactly when
\* lat is outside -90..90, a message with "longitude" exactly when lat is in
\* range and lon is outside -180..180, and None otherwise; an in-range point
\* outside the county bounding box is logged and not rejected.
C9_Validation ==
    trace.validation.called =>
        LET lat == trace.validation.lat
            lon == trace.validation.lon
        IN /\ Rejected("latitude") <=> Outside(lat, -900, 900)
           /\ Rejected("longitude") <=> (~Outside(lat, -900, 900) /\ Outside(lon, -1800, 1800))
           /\ (~Outside(lat, -900, 900) /\ ~Outside(lon, -1800, 1800))
                 => trace.validation.ret = PyNone
           /\ trace.validation.warned <=>
                 /\ ~Outside(lat, -900, 900) /\ ~Outside(lon, -1800, 1800)
                 /\ \/ Outside(lat, 337, 348)
                    \/ Outside(lon, -1190, -1176)
           /\ trace.validation.warned => (trace.validation.ret = PyNone /\ trace.query.called)

C9_Witness ==
    /\ trace.validation.called
    /\ trace.validation.lat = PyFloat(900) /\ trace.validation.lon = PyFloat(-1800)
    /\ trace.validation.ret = PyNone /\ trace.validation.warned
    /\ response.statusCode = 200

\* The coordinates of the last request as given.
GivenLat == DictGet(QueryParams(event), "lat")
GivenLon == DictGet(QueryParams(event), "lon")

\* A coordinate is missing: not given, null or empty.
IsMissing(v) == v = PyNone \/ v = PyStr("")
\* A given coordinate is numeric: a number or a string float() reads.
IsNumeric(v) == v.t \in {"int", "float"} \/ (v.t = "str" /\ ParseFloat(v.s).ok)

NumberOf(v) == ToFloat(v).val

BadRequest ==
    \/ IsMissing(GivenLat) \/ IsMissing(GivenLon)
    \/ ~IsNumeric(GivenLat) \/ ~IsNumeric(GivenLon)
    \/ Outside(NumberOf(GivenLat), -900, 900) \/ Outside(NumberOf(GivenLon), -1800, 1800)

\* C10: a request whose lat or lon is missing, not numeric or out of range
\* is answered 400 with status "error" and a message, and query_point is not
\* run for it.
C10_BadRequestIs400 ==
    (response # NoResponse /\ BadRequest) =>
        /\ response.statusCode = 400
        /\ response.body.status = "error"
        /\ "message" \in DOMAIN response.body
        /\ ~trace.query.called
        /\ "results" \notin DOMAIN response.body

\* A given coordinate lies in [lo, hi] (tenths of a degree), bounds included.
Within(v, lo, hi) == FloatLe(PyFloat(lo), NumberOf(v)) /\ FloatLe(NumberOf(v), PyFloat(hi))

\* Both coordinates are given, as numbers or numeric strings, and in range.
WellFormed ==
    /\ GivenLat # PyNone /\ GivenLon # PyNone
    /\ IsNumeric(GivenLat) /\ IsNumeric(GivenLon)
    /\ Within(GivenLat, -900, 900) /\ Within(GivenLon, -1800, 1800)

\* C11: a request whose lat and lon are both given, as a number or a numeric
\* string, and in range (the value 0 included) is answered 200 with status
\* "success", the parsed coordinates under query and the map of query_point
\* under results.
C11_ValidRequestIs200 ==
    (response # NoResponse /\ WellFormed) =>
        /\ response.statusCode = 200
        /\ response.body.status = "success"
        /\ response.body.query = [lat |-> NumberOf(GivenLat), lon |-> NumberOf(GivenLon)]
        /\ response.body.results =
              query_point(layer_cache, NumberOf(GivenLat), NumberOf(GivenLon)).results

\* C12: lambda_handler returns a response for every event and every state of
\* the store; its statusCode is 200, 400 or 500, and a 500 has status "error"
\* and the generic message.
C12_AlwaysAResponse ==
    response # NoResponse =>
        /\ response.statusCode \in {200, 400, 500}
        /\ response.statusCode = 500 =>
              /\ response.body.status = "error"
              /\ response.body.message = InternalMessage

C12_Witness ==
    /\ response.statusCode = 500
    /\ response.body.message = InternalMessage
    /\ Entries # {}
    /\ \A e \in Entries : ~e.loaded

\* C13: every response of lambda_handler, 200, 400 or 500, carries the
\* header Access-Control-Allow-Origin: *.
C13_CorsOnEveryResponse ==
    response # NoResponse =>
        /\ "Access-Control-Allow-Origin" \in DOMAIN response.headers
        /\ response.headers["Access-Control-Allow-Origin"] = "*"

C13_Witness ==
    /\ response.statusCode = 500
    /\ trace.cold
    /\ response.headers["Access-Control-Allow-Origin"] = "*"

\* ------------------------------------------------- claims: apportionment
\* The last run of apportion_layer found the layer file and ran the
\* apportionment; its records, its pieces, and the tables it read.
Ran == apportion.ran /\ target_file # PyNone
Records == apportion.apportioned.records
Pieces == apportion.apportioned.pieces
TargetRows == target_file.rows
BlockRows == census_blocks.rows
Requested == Elems(ValueCols(config))

\* The id the run gives target j.
TargetsWithId == AddTargetId(target_file, get_layer_id_field(LayerName, config))
TargetIdOf(j) == TargetsWithId.targets.rows[j].vals[TargetsWithId.field]

\* Target j shares area with some block.
Overlapping(j) ==
    \E i \in 1..Len(BlockRows) : BlockRows[i].geometry \cap TargetRows[j].geometry # {}

\* The targets cover the blocks exactly: no overlap between two targets, no
\* part of a block outside them, no part of a target outside the blocks.
ExactTiling ==
    /\ \A j, k \in 1..Len(TargetRows) :
          j # k => TargetRows[j].geometry \cap TargetRows[k].geometry = {}
    /\ UNION {TargetRows[j].geometry : j \in 1..Len(TargetRows)}
         = UNION {BlockRows[i].geometry : i \in 1..Len(BlockRows)}

\* Sum of a column over the source blocks, and over the records.
SourceTotal(col) ==
    SumSeq([i \in 1..Len(BlockRows) |->
              RatOf(IF col \in census_blocks.columns THEN BlockRows[i].vals[col] ELSE 0)])
ApportionedTotal(col) ==
    SumOver([id \in DOMAIN Records |-> Records[id].counts[col]], DOMAIN Records)

\* C14: when the targets tile the blocks exactly, for every value column the
\* apportioned values of all targets add up to the column's sum over the
\* blocks.
C14_Conservation ==
    (Ran /\ ExactTiling) =>
        \A col \in Requested : ApportionedTotal(col) = SourceTotal(col)

C14_Witness ==
    /\ Ran /\ ExactTiling
    /\ Len(TargetRows) = 2 /\ Len(BlockRows) = 2
    /\ \E k \in 1..Len(Pieces) : Pieces[k].weight = Rat(1, 2)
    /\ \E id \in DOMAIN Records : Records[id].source_blocks_count = 2
    /\ ApportionedTotal("pop_total") = RatOf(200)

\* C15: every target of the layer file has a record in the output; a target
\* that shares no area with any block has all counts zero and source block
\* count 0.
C15_EveryTargetHasRecord ==
    Ran =>
        \A j \in 1..Len(TargetRows) :
            /\ TargetIdOf(j) \in DOMAIN Records
            /\ ~Overlapping(j) =>
                  /\ \A col \in Requested : Records[TargetIdOf(j)].counts[col] = RatOf(0)
                  /\ Records[TargetIdOf(j)].source_blocks_count = 0

\* Two adjacent blocks of equal area with 100 people each, and one target
\* that covers the west half of the west block and all of the east block.
HalfAndWhole ==
    /\ Len(BlockRows) = 2 /\ Len(TargetRows) = 1
    /\ BlockRows[1].geometry = {1, 2} /\ BlockRows[2].geometry = {3, 4}
    /\ BlockRows[1].vals["pop_total"] = 100 /\ BlockRows[2].vals["pop_total"] = 100
    /\ TargetRows[1].geometry = {1, 3, 4}

\* C16: in that scenario the target's apportioned pop_total is 50 + 100 = 150.
C16_HalfAndWholeIs150 ==
    (Ran /\ HalfAndWhole) =>
        /\ DOMAIN Records = {TargetIdOf(1)}
        /\ Records[TargetIdOf(1)].counts["pop_total"] = RatOf(150)

\* C17: with non-negative block counts every apportioned value of every
\* column of every record is >= 0.
C17_NonNegative ==
    Ran => \A id \in DOMAIN Records :
              \A col \in DOMAIN Records[id].counts : RatLe(RatOf(0), Records[id].counts[col])

C17_Witness ==
    /\ Ran
    /\ \A i \in 1..Len(BlockRows) : \A c \in census_blocks.columns : BlockRows[i].vals[c] >= 0
    /\ \E id \in DOMAIN Records : Records[id].counts["pop_total"] = RatOf(50)
    /\ \E id \in DOMAIN Records : Records[id].counts["housing_total"] = RatOf(60)

\* Sum of the areas of the pieces that share the block of piece k.
AreaOfBlockPieces(k) ==
    SumOver([m \in 1..Len(Pieces) |-> RatOf(Area(Pieces[m].geometry))],
            {m \in 1..Len(Pieces) : Pieces[m].block_geoid = Pieces[k].block_geoid})

\* C18: the weight of a piece is its area over the summed areas of the
\* pieces of its block, 0 when that sum is zero; it lies in [0, 1].
C18_Weight ==
    Ran => \A k \in 1..Len(Pieces) :
              /\ Pieces[k].weight =
                    IF AreaOfBlockPieces(k).num > 0
                    THEN Rat(Area(Pieces[k].geometry), AreaOfBlockPieces(k).num)
                    ELSE RatOf(0)
              /\ RatLe(RatOf(0), Pieces[k].weight) /\ RatLe(Pieces[k].weight, RatOf(1))

C18_Witness ==
    /\ Ran
    /\ \E k \in 1..Len(Pieces) :
          AreaOfBlockPieces(k) = RatOf(0) /\ Pieces[k].weight = RatOf(0)
    /\ \E k \in 1..Len(Pieces) : Pieces[k].weight = Rat(1, 2)

\* C19: a requested value column the block table lacks is no error: the run
\* completes and every record has the column with value 0.
C19_MissingColumnIsZero ==
    Ran => \A col \in Requested \ census_blocks.columns :
              \A id \in DOMAIN Records :
                  /\ col \in DOMAIN Records[id].counts
                  /\ Records[id].counts[col] = RatOf(0)

C19_Witness ==
    /\ Ran /\ apportion.ok
    /\ "housing_total" \in Requested \ census_blocks.columns
    /\ \E id \in DOMAIN Records :
          /\ Records[id].counts["housing_total"] = RatOf(0)
          /\ Records[id].counts["pop_total"] = RatOf(100)

\* The configured id field is null, "null" or no column of the layer file.
ConfiguredId == DictGet(config[LayerName], "id_field")
Unusable ==
    \/ ConfiguredId = PyNone \/ ConfiguredId = PyStr("null")
    \/ ConfiguredId.s \notin target_file.columns

\* The id the run grouped piece k under.
GroupIdOf(k) == Pieces[k].tvals[apportion.apportioned.id_field]

\* No record is made of the pieces of two targets.
NeverMerged ==
    \A k, m \in 1..Len(Pieces) : GroupIdOf(k) = GroupIdOf(m) => Pieces[k].target = Pieces[m].target

\* C20: without a usable id field the run numbers the targets 0..n-1 and
\* groups by that number, so no record is made of two targets.
C20_SyntheticIds ==
    (Ran /\ Unusable /\ DOMAIN Records # {}) =>
        /\ NeverMerged
        /\ apportion.apportioned.id_field = "target_id"
        /\ \A k \in 1..Len(Pieces) : GroupIdOf(k) = PyInt(Pieces[k].target - 1)

\* The pieces in another order, and the records aggregated from them.
Orders == {f \in [1..Len(Pieces) -> 1..Len(Pieces)] :
              \A i, j \in 1..Len(Pieces) : i # j => f[i] # f[j]}
Reordered(f) == [k \in 1..Len(Pieces) |-> Pieces[f[k]]]
PieceColumns == DOMAIN Pieces[1].bvals \cup DOMAIN Pieces[1].tvals
RecordsOf(pieces) ==
    Aggregate(pieces, apportion.apportioned.id_field, PieceColumns, ValueCols(config)).records

\* C26: the records aggregated from the pieces (sums, source block count and
\* descriptive attributes) are the same for every order of the pieces.
C26_OrderIndependent ==
    (Ran /\ Len(Pieces) > 0) => \A f \in Orders : RecordsOf(Reordered(f)) = Records

\* The blocks the bounding-box filter removes, by row.
Removed ==
    {i \in 1..Len(BlockRows) :
        \A k \in 1..Len(census_bbox_filter(census_blocks, target_file).rows) :
            census_bbox_filter(census_blocks, target_file).rows[k].block_geoid
                # BlockRows[i].block_geoid}

\* The zero-area pieces of the run, as pairs of rows of the unfiltered blocks
\* and the targets.
ArtifactsOfRun ==
    {<<p[1], Pieces[p[2]].target>> :
        p \in {q \in (1..Len(BlockRows)) \X (1..Len(Pieces)) :
                  /\ Pieces[q[2]].geometry = {}
                  /\ Pieces[q[2]].block_geoid = BlockRows[q[1]].block_geoid}}

\* C27: every block census_bbox_filter removes shares no area with any
\* target, and apportioning all blocks gives the records of the run, which
\* apportioned the filtered blocks.
C27_FilterHasNoEffect ==
    Ran =>
        /\ \A i \in Removed : \A j \in 1..Len(TargetRows) :
              BlockRows[i].geometry \cap TargetRows[j].geometry = {}
        /\ apportion_blocks_to_targets(census_blocks, target_file,
                                       get_layer_id_field(LayerName, config),
                                       ValueCols(config), ArtifactsOfRun).records = Records

C27_Witness ==
    /\ Ran /\ apportion.ok
    /\ Removed # {}
    /\ \E i \in Removed : BlockRows[i].vals["pop_total"] = 100
    /\ ApportionedTotal("pop_total") = RatOf(100)

\* The blocks that have a piece of positive area, and the sum of the weights
\* of the pieces of a block.
Apportionable ==
    {i \in 1..Len(BlockRows) :
        \E k \in 1..Len(Pieces) :
            Pieces[k].block_geoid = BlockRows[i].block_geoid /\ Pieces[k].geometry # {}}
WeightSum(i) ==
    SumOver([k \in 1..Len(Pieces) |-> Pieces[k].weight],
            {k \in 1..Len(Pieces) : Pieces[k].block_geoid = BlockRows[i].block_geoid})

IndexOf(cache, name) ==
    IF InCache(cache, name) THEN CHOOSE i \in 1..Len(cache) : cache[i].name = name ELSE 0

\* C24: a step of load_layers or lambda_handler (query_point included) leaves
\* every entry the store already has as it is: same features in the same
\* order, same config, same outcome, same place.  An entry is Loaded or
\* Failed from the step that creates it on.
C24_EntryKept ==
    \A e \in Entries :
        /\ InCache(layer_cache', e.name)
        /\ CacheGet(layer_cache', e.name) = e
        /\ IndexOf(layer_cache', e.name) = IndexOf(layer_cache, e.name)

C24_EntriesNeverChange == [][C24_EntryKept]_vars

C24_Witness ==
    /\ Len(layer_cache) = Len(LAYERS)
    /\ \E e \in Entries : e.loaded /\ Len(e.features) = 2
    /\ \E e \in Entries : ~e.loaded /\ e.error # ""
    /\ ~trace.cold /\ response.statusCode = 400
    /\ \A n \in LayerNames : fetches[n] = 1

\* Invocation t is loading layer i: its fetch is pending or its result is
\* not stored yet.
Loading(t, i) == pc[t] \in {"fetch", "store"} /\ idx[t] = i

\* The step in which invocation t ends a load records the layer, as Failed
\* with the error of the fetch when the fetch raised.
C25_LoadRecorded ==
    \A t \in Invocations : \A i \in 1..Len(LAYERS) :
        (Loading(t, i) /\ ~Loading(t, i)') =>
            /\ InCache(layer_cache', LAYERS[i].name)
            /\ delivered[t].exc # "" =>
                  /\ ~CacheGet(layer_cache', LAYERS[i].name).loaded
                  /\ CacheGet(layer_cache', LAYERS[i].name).error = delivered[t].exc

\* C25: every load that is started ends, with the layer Loaded or Failed in
\* the store; a fetch that timed out leaves it Failed.
C25_EveryLoadEnds ==
    /\ \A t \in Invocations : \A i \in 1..Len(LAYERS) : Loading(t, i) ~> ~Loading(t, i)
    /\ [][C25_LoadRecorded]_vars

C25_Witness ==
    /\ \E t \in Invocations : pc[t] = "done"
    /\ \E e \in Entries : ~e.loaded /\ e.error = "timed out"
    /\ \E e \in Entries : e.loaded

\* C29: once lambda_handler has answered, whatever the request was, every
\* configured layer has an entry; no invocation after that fetches anything.
C29_AllCachedOnceAnswered ==
    response # NoResponse => \A n \in LayerNames : InCache(layer_cache, n)

C29_NoLoadAfterAnswer ==
    response # NoResponse => fetches' = fetches /\ layer_cache' = layer_cache

C29_StoreBeforeRequest == []C29_AllCachedOnceAnswered /\ [][C29_NoLoadAfterAnswer]_vars

C29_Witness ==
    /\ trace.cold
    /\ response.statusCode = 400 /\ response.body.message = MissingMessage
    /\ \A n \in LayerNames : InCache(layer_cache, n) /\ fetches[n] = 1


\* ------------------------------------------------------- claims: validation
\* A step in which validate_layer returned a verdict with the conservation
\* check run: the demographics file and the layer file exist, nothing raised.
Checking ==
    /\ result' # result /\ result'.exc = ""
    /\ demographics # PyNone /\ target_file # PyNone

\* A step in which validate_layer returned a verdict on an existing file.
Judging == result' # result /\ result'.exc = "" /\ demographics # PyNone

\* |a - s| / s * 100 > tolerance for s > 0, without the division.
DiffExceeds(a, s, tolerance_pct) ==
    Abs(a.num * s.den - s.num * a.den) * 100 * tolerance_pct.den
        > tolerance_pct.num * s.num * a.den

\* The sum of the values of a column of the file, nulls left out.
FileTotal(col) ==
    SumOver([id \in DOMAIN demographics.records |-> demographics.records[id].counts[col]],
            {id \in DOMAIN demographics.records : demographics.records[id].counts[col].den # 0})

C21_Step ==
    Checking =>
        /\ \A col \in Requested :
              /\ col \in FileColumns(demographics) =>
                    result'.report[col].apportioned = FileTotal(col)
              /\ result'.report[col].source.num > 0 =>
                    (result'.report[col].failed <=>
                        DiffExceeds(result'.report[col].apportioned,
                                    result'.report[col].source, result'.tolerance))
        /\ result'.value.conservation_valid <=>
              \A col \in Requested : ~result'.report[col].failed

\* C21: the conservation check fails a value column exactly when
\* |apportioned total - source total| / source total * 100 is greater than
\* the tolerance (a difference equal to the tolerance passes), and the check
\* passes as a whole exactly when no column fails.
C21_ToleranceCheck == [][C21_Step]_vars

\* Run with the default tolerance: pop_total is 1 percent off and passes,
\* housing_total is further off and fails the layer.
C21_Witness ==
    /\ result.ran /\ result.exc = "" /\ result.tolerance = RatOf(1)
    /\ DOMAIN result.report = Requested
    /\ result.report["pop_total"].source = RatOf(100)
    /\ result.report["pop_total"].apportioned = RatOf(99)
    /\ ~result.report["pop_total"].failed
    /\ result.report["housing_total"].failed
    /\ ~result.value.conservation_valid

\* The file holds a negative, or a null, value in a requested column.
AnyNegative ==
    \E id \in DOMAIN demographics.records :
        \E col \in Requested \cap DOMAIN demographics.records[id].counts :
            ~RatLe(RatOf(0), demographics.records[id].counts[col])
                /\ ~IsNaN(demographics.records[id].counts[col])
AnyNull ==
    \E id \in DOMAIN demographics.records :
        \E col \in Requested \cap DOMAIN demographics.records[id].counts :
            IsNaN(demographics.records[id].counts[col])

C22_Step ==
    Judging =>
        /\ result'.value.has_negatives <=> AnyNegative
        /\ result'.value.has_nulls <=> AnyNull
        /\ (AnyNegative \/ AnyNull) => ~result'.value.valid

C23_FilesKept ==
    apportion' = apportion =>
        /\ demographics' = demographics
        /\ UNCHANGED worldVars

\* The records of the last successful run of apportion_layer are on disk.
C23_Written ==
    (apportion.ran /\ apportion.ok) =>
        /\ demographics # PyNone
        /\ demographics.records = Records

\* C23: validate_layer, whatever it finds, leaves the demographics file (and
\* the files it reads) unchanged, and the records apportion_layer wrote stay
\* written when the validation fails.
C23_Advisory == [][C23_FilesKept]_vars /\ []C23_Written

C23_Witness ==
    /\ apportion.ran /\ apportion.ok
    /\ result.ran /\ result.exc = "" /\ DOMAIN result.report = Requested
    /\ ~result.value.valid /\ ~result.value.conservation_valid
    /\ result.report["pop_total"].apportioned = ApportionedTotal("pop_total")
    /\ demographics # PyNone /\ demographics.records = Records

C30_Step ==
    Checking =>
        /\ \A col \in Requested :
              /\ result'.report[col].source.num <= 0 =>
                    ~result'.report[col].failed /\ result'.report[col].status = "-"
              /\ col \notin FileColumns(demographics) =>
                    /\ result'.report[col].apportioned = RatOf(0)
                    /\ result'.report[col].source.num > 0 =>
                          (result'.report[col].failed <=>
                              DiffExceeds(RatOf(0), result'.report[col].source,
                                          result'.tolerance))
        /\ (\A col \in Requested : result'.report[col].source.num <= 0) =>
              result'.value.conservation_valid

\* C30: validate_apportionment skips a value column whose source total is
\* not positive, which then cannot fail whatever its apportioned total is,
\* and takes 0 as the apportioned total of a column that apportioned_totals
\* does not have.
C30_SkippedAndAbsent == [][C30_Step]_vars

\* pop_total has the source total 0 and the apportioned total 99 and is
\* skipped; housing_total is absent from the file and compared as 0.
C30_Witness ==
    /\ result.ran /\ result.exc = "" /\ demographics # PyNone
    /\ DOMAIN result.report = Requested
    /\ result.report["pop_total"].source = RatOf(0)
    /\ result.report["pop_total"].apportioned = RatOf(99)
    /\ result.report["pop_total"].status = "-"
    /\ "housing_total" \notin FileColumns(demographics)
    /\ result.report["housing_total"].apportioned = RatOf(0)
    /\ result.report["housing_total"].source = RatOf(40)
    /\ result.report["housing_total"].failed
    /\ ~result.value.conservation_valid
=============================================================================
